---- MODULE Spec2Model ----
(***************************************************************************)
(* Model of the temporal-state core of supervision's annotators:          *)
(*   HeatmapAnnotator  (src/supervision/annotators/core.py, 88-197)       *)
(*   TraceAnnotator    (src/supervision/annotators/core.py, 734-819)      *)
(* and of the Trace buffer the TraceAnnotator owns.                        *)
(*                                                                         *)
(* Box coordinates are floats in the program.  They are held here in      *)
(* half-pixel units (the value 2*x for the coordinate x), so that a       *)
(* coordinate such as 0.5 and the midpoint of an odd sum are exact.       *)
(***************************************************************************)
EXTENDS Integers, Sequences, FiniteSets, TLC

VARIABLES
    \* the HeatmapAnnotator: its fields, the number of annotate calls made, the
    \* arguments and the result of the last call, the arrays it computed, and
    \* the history of what was fed to it
    hm, hm_calls, hm_in, hm_out, hm_obs, hm_ghost,
    \* the TraceAnnotator: its fields (the Trace among them), the number of
    \* annotate calls made, the last call (arguments, outcome, poly-lines
    \* drawn), the results of the direct gets since, every point ever put, and
    \* the trace_length it was built with
    tr, tr_calls, tr_last, tr_got, tr_all, tr_length,
    \* the last call of a constructor or of a function without retained state:
    \* what was called, its arguments and what came of it
    call

heat_vars == <<hm, hm_calls, hm_in, hm_out, hm_obs, hm_ghost>>

trace_vars == <<tr, tr_calls, tr_last, tr_got, tr_all, tr_length>>

api_vars == <<call>>

vars == <<hm, hm_calls, hm_in, hm_out, hm_obs, hm_ghost,
          tr, tr_calls, tr_last, tr_got, tr_all, tr_length, call>>

-----------------------------------------------------------------------------
(* Bounds of the model. *)

\* frame shape: scene.shape[:2] == (Height, Width)
Width == 4
Height == 2
\* number of annotate calls made on one annotator
MaxFrames == 4
\* number of detections in one frame of the trace annotator
MaxDet == 2
\* number of annotate calls made on one trace annotator
MaxTraceFrames == 4
\* largest trace_length a trace annotator is built with
MaxTraceLength == 3
\* longest axis of the arrays a Keypoints is built from
MaxDim == 3

\* Python's None, for a position
None == "None"

\* an Optional value that is not a position: Nil is None, Some(v) is v
Nil == <<>>
Some(v) == <<v>>
Val(o) == o[1]

Pixels == (0 .. Width - 1) \X (0 .. Height - 1)

Positions == {"TOP_LEFT", "TOP_CENTER", "TOP_RIGHT", "CENTER_LEFT", "CENTER",
              "CENTER_RIGHT", "BOTTOM_LEFT", "BOTTOM_CENTER", "BOTTOM_RIGHT"}

-----------------------------------------------------------------------------
(* Arithmetic helpers. *)

\* Python's int(a / b) for b > 0: truncation toward zero.
TruncDiv(a, b) == IF a >= 0 THEN a \div b ELSE -((-a) \div b)

\* round(a / b) for a >= 0, b > 0, ties to even (cvRound / saturate_cast)
RoundDiv(a, b) ==
    LET q == a \div b
        r == a % b
    IN  IF 2 * r < b THEN q
        ELSE IF 2 * r > b THEN q + 1
        ELSE IF q % 2 = 0 THEN q ELSE q + 1

\* the function f itself, tabulated over its domain (f @@ the empty function)
Table(f) == f @@ <<>>

\* the largest element of a non-empty finite set of numbers
SetMax(S) == CHOOSE m \in S : \A x \in S : x <= m

-----------------------------------------------------------------------------
(* HeatmapAnnotator *)

\* HeatmapAnnotator.__init__: the arguments are stored as given, heatmask is None
HeatmapAnnotatorInit(position, opacity, radius, kernel_size) ==
    [position |-> position, opacity |-> opacity, radius |-> radius,
     kernel_size |-> kernel_size, heatmask |-> Nil]

\* HeatmapAnnotator(position, opacity, radius, kernel_size): __init__ checks
\* none of its arguments, every construction gives an annotator
HeatmapAnnotatorNew(position, opacity, radius, kernel_size) ==
    [outcome |-> "ok",
     self |-> Some(HeatmapAnnotatorInit(position, opacity, radius, kernel_size))]

\* int(v) of a coordinate held in half-pixel units, again in half-pixel units
IntHalf(v) == 2 * TruncDiv(v, 2)

\* int((a + b) / 2) of two coordinates held in half-pixel units
MidHalf(a, b) == 2 * TruncDiv(a + b, 4)

\* HeatmapAnnotator.get_xy; xyxy and the result are in half-pixel units.
\* TOP_LEFT (and position None) returns the coordinates as they are.
get_xy(xyxy, position) ==
    IF position = None \/ position = "TOP_LEFT" THEN <<xyxy[1], xyxy[2]>>
    ELSE IF position = "TOP_CENTER" THEN <<MidHalf(xyxy[1], xyxy[3]), IntHalf(xyxy[2])>>
    ELSE IF position = "TOP_RIGHT" THEN <<IntHalf(xyxy[3]), IntHalf(xyxy[2])>>
    ELSE IF position = "CENTER_LEFT" THEN <<IntHalf(xyxy[1]), MidHalf(xyxy[2], xyxy[4])>>
    ELSE IF position = "CENTER" THEN <<MidHalf(xyxy[1], xyxy[3]), MidHalf(xyxy[2], xyxy[4])>>
    ELSE IF position = "CENTER_RIGHT" THEN <<IntHalf(xyxy[3]), MidHalf(xyxy[2], xyxy[4])>>
    ELSE IF position = "BOTTOM_LEFT" THEN <<IntHalf(xyxy[1]), IntHalf(xyxy[4])>>
    ELSE IF position = "BOTTOM_CENTER" THEN <<MidHalf(xyxy[1], xyxy[3]), IntHalf(xyxy[4])>>
    ELSE IF position = "BOTTOM_RIGHT" THEN <<IntHalf(xyxy[3]), IntHalf(xyxy[4])>>
    ELSE None

\* np.zeros(scene.shape[:2])
Zeros == [p \in Pixels |-> 0]

\* whether cv2.circle(img, center, radius, color, -1) fills the pixel p: the
\* disk of the given radius around the centre (in pixels), clipped to the image
InDisk(p, center, radius) ==
    (p[1] - center[1]) * (p[1] - center[1])
  + (p[2] - center[2]) * (p[2] - center[2]) <= radius * radius

\* Circle, were the disk ADDED to the mask instead of drawn into it
Circle_Adding(mask, center, radius) ==
    LET c == <<TruncDiv(center[1], 2), TruncDiv(center[2], 2)>>
    IN  Table([p \in Pixels |-> mask[p] + IF InDisk(p, c, radius) THEN 1 ELSE 0])

\* cv2.circle(mask, center, radius, 1, -1): every pixel of the disk is SET to
\* the colour 1; the centre arrives in half-pixel units
Circle(mask, center, radius) ==
    LET c == <<TruncDiv(center[1], 2), TruncDiv(center[2], 2)>>
    IN  Table([p \in Pixels |-> IF InDisk(p, c, radius) THEN 1 ELSE mask[p]])

\* the loop of annotate over the detections: one circle per detection, drawn
\* into the per-frame mask, whatever the detection's tracker_id
RECURSIVE DrawCircles(_, _, _, _, _)
DrawCircles(mask, xyxys, i, position, radius) ==
    IF i > Len(xyxys) THEN mask
    ELSE DrawCircles(Circle(mask, get_xy(xyxys[i], position), radius),
                     xyxys, i + 1, position, radius)

\* Accumulate, were the heatmask the elementwise maximum of mask and heatmask
Accumulate_Max(heatmask, mask) ==
    LET old == IF heatmask = Nil THEN Zeros ELSE Val(heatmask)
    IN  Some(Table([p \in Pixels |-> IF mask[p] > old[p] THEN mask[p] ELSE old[p]]))

\* Accumulate, were the heatmask halved (decayed) before the frame is added
Accumulate_Decaying(heatmask, mask) ==
    LET old == IF heatmask = Nil THEN Zeros ELSE Val(heatmask)
    IN  Some(Table([p \in Pixels |-> mask[p] + old[p] \div 2]))

\* self.heatmask = mask + self.heatmask (heatmask lazily np.zeros on first use)
Accumulate(heatmask, mask) ==
    LET old == IF heatmask = Nil THEN Zeros ELSE Val(heatmask)
    IN  Some(Table([p \in Pixels |-> mask[p] + old[p]]))

NaN == [nan |-> TRUE, num |-> 0, den |-> 1]

\* temp = 100 - temp / temp.max() * 90 on the float copy of the heatmask.
\* There is no guard: when temp.max() is 0 every pixel is 0 / 0, a NaN.
\* Otherwise the value is the exact quotient (100 * max - 90 * h) / max.
Normalize(heatmask) ==
    LET max == SetMax({heatmask[p] : p \in Pixels})
    IN  Table([p \in Pixels |->
            IF max = 0 THEN NaN
            ELSE [nan |-> FALSE, num |-> 100 * max - 90 * heatmask[p], den |-> max]])

\* what a float-to-uint8 cast of NaN can give: the cast is undefined in C, the
\* usual builds give 0, others the saturated value
UndefCast == {0, 255}

\* the cast, were it to round to the nearest integer
AsUint8_Rounding(v, u) == IF v.nan THEN u ELSE RoundDiv(v.num, v.den) % 256

\* temp.astype(np.uint8): truncation, modulo 2^8; the cast of a NaN is the
\* build's choice u
AsUint8(v, u) == IF v.nan THEN u ELSE TruncDiv(v.num, v.den) % 256

\* cv2's BORDER_REFLECT_101 index into an axis of n pixels
Reflect101(i, n) ==
    IF n = 1 THEN 0
    ELSE IF i < 0 THEN -i
    ELSE IF i >= n THEN 2 * (n - 1) - i
    ELSE i

\* cv2.GaussianBlur(temp, (k, k), 0) on 8-bit data for the kernel sizes 1
\* (weights [1]) and 3 (weights [1 2 1] / 4 on each axis), rounded once
GaussianBlur(temp, kernel_size) ==
    IF kernel_size = 1 THEN temp
    ELSE Table([p \in Pixels |->
            LET wt(d) == IF d = 0 THEN 2 ELSE 1
                at(dx, dy) == temp[<<Reflect101(p[1] + dx, Width),
                                     Reflect101(p[2] + dy, Height)>>]
                row(dy) == wt(-1) * at(-1, dy) + wt(0) * at(0, dy) + wt(1) * at(1, dy)
            IN  (wt(-1) * row(-1) + wt(0) * row(0) + wt(1) * row(1) + 8) \div 16])

\* cv2.cvtColor(hsv, COLOR_HSV2BGR) of the 8-bit pixel (h, 255, 255): hue in
\* units of 2 degrees, six sectors of 30 units
HSV2BGR(h) ==
    LET hh == h % 180
        sector == hh \div 30
        up == RoundDiv(255 * (hh % 30), 30)
        down == RoundDiv(255 * (30 - (hh % 30)), 30)
    IN  IF sector = 0 THEN <<0, up, 255>>
        ELSE IF sector = 1 THEN <<0, 255, down>>
        ELSE IF sector = 2 THEN <<up, 255, 0>>
        ELSE IF sector = 3 THEN <<255, down, 0>>
        ELSE IF sector = 4 THEN <<255, 0, up>>
        ELSE <<down, 0, 255>>

Saturate(v) == IF v < 0 THEN 0 ELSE IF v > 255 THEN 255 ELSE v

\* cv2.addWeighted(temp, opacity, scene, 1 - opacity, 0) at one pixel; the
\* opacity is held in percent
AddWeighted(a, opacity, b) ==
    [c \in 1 .. 3 |-> Saturate(RoundDiv(a[c] * opacity + b[c] * (100 - opacity), 100))]

\* HeatmapAnnotator.annotate(scene, detections) on the annotator self; u is
\* the build's cast of a NaN.  Gives the annotator after the call, the scene
\* returned and the intermediate arrays.
annotate(self, scene, detections, u) ==
    LET mask == DrawCircles(Zeros, detections.xyxy, 1, self.position, self.radius)
        heatmask == Accumulate(self.heatmask, mask)
        norm == Normalize(Val(heatmask))
        temp8 == Table([p \in Pixels |-> AsUint8(norm[p], u)])
        temp == IF self.kernel_size # Nil
                THEN GaussianBlur(temp8, Val(self.kernel_size)) ELSE temp8
        bgr == Table([p \in Pixels |-> HSV2BGR(temp[p])])
    IN  [self |-> [self EXCEPT !.heatmask = heatmask],
         mask |-> mask,
         nan |-> \E p \in Pixels : norm[p].nan,
         temp8 |-> temp8,
         temp |-> temp,
         scene |-> Table([p \in Pixels |->
                      IF temp[p] > 0
                      THEN AddWeighted(bgr[p], self.opacity, scene[p])
                      ELSE scene[p]])]

-----------------------------------------------------------------------------
(* Inputs *)

\* boxes (x1, y1, x2, y2) in half-pixel units, integer pixel coordinates
HeatBoxes == {<<0, 0, 2, 2>>, <<2, 0, 6, 2>>}

RECURSIVE SeqsUpTo(_, _)
SeqsUpTo(S, n) ==
    IF n = 0 THEN {<<>>}
    ELSE LET shorter == SeqsUpTo(S, n - 1)
         IN  shorter \cup {Append(s, x) : s \in {t \in shorter : Len(t) = n - 1}, x \in S}

\* the Detections objects fed to the heatmap: up to as many boxes as HeatBoxes
\* has, and tracker_id, which is None or one identity per box
HeatDetections ==
    UNION {{[xyxy |-> b, tracker_id |-> Nil],
            [xyxy |-> b, tracker_id |-> Some([i \in 1 .. Len(b) |-> i])]} :
           b \in SeqsUpTo(HeatBoxes, Cardinality(HeatBoxes))}

UniformScene(bgr) == [p \in Pixels |-> bgr]

Scenes == {UniformScene(<<40, 120, 250>>)}

HeatPositions == {"BOTTOM_CENTER", "CENTER"}
Opacities == {0, 20, 100}
Radii == {1}
KernelSizes == {Nil, Some(3)}

-----------------------------------------------------------------------------
(* The heatmap annotator as a state machine *)

\* number of detections of the frame whose disk covers the pixel p
Coverings(detections, position, radius, p) ==
    Cardinality({i \in 1 .. Len(detections.xyxy) :
        LET c == get_xy(detections.xyxy[i], position)
        IN  InDisk(p, <<TruncDiv(c[1], 2), TruncDiv(c[2], 2)>>, radius)})

\* the casts of a NaN the build may choose from in this call: the choice
\* matters only when the accumulator is all zero after the frame is added
NanCasts(self, detections) ==
    LET mask == DrawCircles(Zeros, detections.xyxy, 1, self.position, self.radius)
        heatmask == Val(Accumulate(self.heatmask, mask))
    IN  IF SetMax({heatmask[p] : p \in Pixels}) = 0 THEN UndefCast ELSE {0}

HeatVarsInit ==
    /\ \E position \in HeatPositions, opacity \in Opacities,
          radius \in Radii, kernel_size \in KernelSizes :
          hm = HeatmapAnnotatorInit(position, opacity, radius, kernel_size)
    /\ hm_calls = 0
    /\ hm_in = [scene |-> UniformScene(<<0, 0, 0>>),
                detections |-> [xyxy |-> <<>>, tracker_id |-> Nil]]
    /\ hm_out = UniformScene(<<0, 0, 0>>)
    /\ hm_obs = [mask |-> Zeros, nan |-> FALSE, temp8 |-> Zeros, temp |-> Zeros]
    /\ hm_ghost = [cover |-> Zeros, frames |-> Zeros, same |-> TRUE,
                   single |-> Zeros, ever |-> 0]

HeatmapAnnotate ==
    /\ hm_calls < MaxFrames
    /\ \E scene \in Scenes, detections \in HeatDetections :
       \E u \in NanCasts(hm, detections) :
       \E r \in {annotate(hm, scene, detections, u)},
          n \in {Table([p \in Pixels |->
                     Coverings(detections, hm.position, hm.radius, p)])} :
            /\ hm' = r.self
            /\ hm_in' = [scene |-> scene, detections |-> detections]
            /\ hm_out' = r.scene
            /\ hm_obs' = [mask |-> r.mask, nan |-> r.nan,
                          temp8 |-> r.temp8, temp |-> r.temp]
            /\ hm_ghost' =
                 [cover |-> [p \in Pixels |-> hm_ghost.cover[p] + n[p]],
                  frames |-> [p \in Pixels |->
                                hm_ghost.frames[p] + IF n[p] > 0 THEN 1 ELSE 0],
                  same |-> hm_ghost.same
                           /\ (hm_calls > 0 => detections = hm_in.detections),
                  single |-> IF hm_calls = 0 THEN Val(r.self.heatmask)
                             ELSE hm_ghost.single,
                  ever |-> hm_ghost.ever + Len(detections.xyxy)]
    /\ hm_calls' = hm_calls + 1
    /\ UNCHANGED <<trace_vars, api_vars>>


-----------------------------------------------------------------------------
(* Trace: the buffer of supervision.annotators.utils the TraceAnnotator owns *)

\* Trace(max_size): no identity has a history yet
Trace(max_size) == [max_size |-> max_size, xy |-> <<>>]

\* the anchor point of a box, in pixels, truncated
TraceAnchor(xyxy, anchor) ==
    LET q == get_xy(xyxy, anchor)
    IN  <<TruncDiv(q[1], 2), TruncDiv(q[2], 2)>>

\* get, were an unseen identity entered into the buffer on its first lookup
TraceGetState_Inserting(trace, tracker_id) ==
    IF tracker_id \in DOMAIN trace.xy THEN trace
    ELSE [trace EXCEPT !.xy = [i \in DOMAIN trace.xy \cup {tracker_id} |->
                                  IF i = tracker_id THEN <<>> ELSE trace.xy[i]]]

\* Trace.get: what the lookup leaves of the buffer: the buffer
TraceGetState(trace, tracker_id) == trace

\* Trace.get(tracker_id): the points stored for the identity, oldest first;
\* none for an identity never put
TraceGet(trace, tracker_id) ==
    IF tracker_id \in DOMAIN trace.xy THEN trace.xy[tracker_id] ELSE <<>>

\* one point appended to an identity's history, the oldest evicted at capacity
TracePush(trace, tracker_id, point) ==
    LET old == TraceGet(trace, tracker_id)
        kept == IF Len(old) >= trace.max_size THEN Tail(old) ELSE old
    IN  [trace EXCEPT !.xy = [i \in DOMAIN trace.xy \cup {tracker_id} |->
                                 IF i = tracker_id THEN Append(kept, point)
                                 ELSE trace.xy[i]]]

\* Trace.put(detections): every detection that carries a tracker identity
\* appends its anchor point; without tracker identities nothing is put
RECURSIVE TracePut(_, _, _, _)
TracePut(trace, detections, anchor, i) ==
    IF detections.tracker_id = Nil \/ i > Len(detections.xyxy) THEN trace
    ELSE TracePut(TracePush(trace, Val(detections.tracker_id)[i],
                            TraceAnchor(detections.xyxy[i], anchor)),
                  detections, anchor, i + 1)

-----------------------------------------------------------------------------
(* TraceAnnotator *)

\* __init__, were the Trace built one point longer than trace_length
TraceAnnotatorInit_LongerTrace(position, trace_length) ==
    [position |-> position, trace |-> Trace(trace_length + 1)]

\* TraceAnnotator.__init__: the Trace is built with max_size = trace_length
TraceAnnotatorInit(position, trace_length) ==
    [position |-> position, trace |-> Trace(trace_length)]

\* Trace.__init__ refuses a max_size that is not positive
TraceRefuses(max_size) == max_size <= 0

\* the construction, were the Trace built at the first annotate call only
TraceAnnotatorNew_LazyTrace(position, trace_length) ==
    [outcome |-> "ok", self |-> Some([position |-> position, trace |-> Nil])]

\* TraceAnnotator(position = position, trace_length = trace_length): __init__
\* builds the Trace itself, so an error of the Trace's constructor leaves no
\* annotator
TraceAnnotatorNew(position, trace_length) ==
    IF TraceRefuses(trace_length)
    THEN [outcome |-> "ConfigError", self |-> Nil]
    ELSE [outcome |-> "ok", self |-> Some(TraceAnnotatorInit(position, trace_length))]

\* the loop, were a history of a single point drawn too
RECURSIVE TraceLoop_DrawSinglePoint(_, _, _, _)
TraceLoop_DrawSinglePoint(trace, detections, i, drawn) ==
    IF i > Len(detections.xyxy) THEN [outcome |-> "ok", drawn |-> drawn]
    ELSE IF detections.tracker_id = Nil
         THEN [outcome |-> "TypeError", drawn |-> drawn]
    ELSE LET xy == TraceGet(trace, Val(detections.tracker_id)[i])
         IN  TraceLoop_DrawSinglePoint(trace, detections, i + 1,
                       IF Len(xy) > 0 THEN Append(drawn, xy) ELSE drawn)

\* the loop of TraceAnnotator.annotate over the detections, from index i on:
\* tracker_id[i] is read first, which raises a TypeError when tracker_id is
\* None; a poly-line is drawn through the identity's history if it has more
\* than one point
RECURSIVE TraceLoop(_, _, _, _)
TraceLoop(trace, detections, i, drawn) ==
    IF i > Len(detections.xyxy) THEN [outcome |-> "ok", drawn |-> drawn]
    ELSE IF detections.tracker_id = Nil
         THEN [outcome |-> "TypeError", drawn |-> drawn]
    ELSE LET xy == TraceGet(trace, Val(detections.tracker_id)[i])
         IN  TraceLoop(trace, detections, i + 1,
                       IF Len(xy) > 1 THEN Append(drawn, xy) ELSE drawn)

\* annotate, were the Trace built anew at every call
trace_annotate_FreshTrace(self, detections) ==
    LET trace == TracePut(Trace(self.trace.max_size), detections, self.position, 1)
        loop == TraceLoop(trace, detections, 1, <<>>)
    IN  [self |-> [self EXCEPT !.trace = trace],
         outcome |-> loop.outcome, drawn |-> loop.drawn]

\* annotate, were the drawing loop run before the put
trace_annotate_DrawFirst(self, detections) ==
    LET loop == TraceLoop(self.trace, detections, 1, <<>>)
        trace == TracePut(self.trace, detections, self.position, 1)
    IN  [self |-> [self EXCEPT !.trace = trace],
         outcome |-> loop.outcome, drawn |-> loop.drawn]

\* TraceAnnotator.annotate(scene, detections): put, then the drawing loop.
\* The annotator hands the Trace no position: the Trace's own anchor is
\* taken to be the annotator's.
trace_annotate(self, detections) ==
    LET trace == TracePut(self.trace, detections, self.position, 1)
        loop == TraceLoop(trace, detections, 1, <<>>)
    IN  [self |-> [self EXCEPT !.trace = trace],
         outcome |-> loop.outcome, drawn |-> loop.drawn]

-----------------------------------------------------------------------------
(* The trace annotator as a state machine *)

\* identity 7 moves, identity 8 stays, identity 9 is never seen
TrackerIds == {7, 8}
ProbeIds == {7, 8, 9}

\* degenerate boxes at the pixels (1,1), (2,2), (3,3), (4,4)
TraceBoxes == {<<2, 2, 2, 2>>, <<4, 4, 4, 4>>, <<6, 6, 6, 6>>, <<8, 8, 8, 8>>}
ParkedBox == <<2, 2, 2, 2>>

\* a tracked detection: identity 7 in any box, identity 8 in the parked box
Tracked == {<<b, 7>> : b \in TraceBoxes} \cup {<<ParkedBox, 8>>}

\* a frame's detections: up to MaxDet tracked detections of distinct
\* identities, or the same boxes with no tracker_id at all
TraceDetections ==
    LET lists == {l \in SeqsUpTo(Tracked, MaxDet) :
                    \A i, j \in 1 .. Len(l) : i # j => l[i][2] # l[j][2]}
    IN  {[xyxy |-> [i \in 1 .. Len(l) |-> l[i][1]],
          tracker_id |-> Some([i \in 1 .. Len(l) |-> l[i][2]])] : l \in lists}
        \cup
        {[xyxy |-> b, tracker_id |-> Nil] : b \in SeqsUpTo({ParkedBox}, MaxDet)}

NoDetections == [xyxy |-> <<>>, tracker_id |-> Nil]

\* the tracker identities of a frame's detections
IdsOf(detections) ==
    IF detections.tracker_id = Nil THEN {}
    ELSE {Val(detections.tracker_id)[i] : i \in 1 .. Len(detections.xyxy)}

\* the anchor point the frame holds for the identity id
PointOf(detections, id, anchor) ==
    LET i == CHOOSE i \in 1 .. Len(detections.xyxy) : Val(detections.tracker_id)[i] = id
    IN  TraceAnchor(detections.xyxy[i], anchor)

TraceInit ==
    /\ \E trace_length \in 1 .. MaxTraceLength :
          /\ tr = TraceAnnotatorInit("CENTER", trace_length)
          /\ tr_length = trace_length
    /\ tr_calls = 0
    /\ tr_last = [detections |-> NoDetections, outcome |-> "ok", drawn |-> <<>>]
    /\ tr_got = [id \in ProbeIds |-> Nil]
    /\ tr_all = [id \in ProbeIds |-> <<>>]

TraceAnnotate ==
    /\ tr_calls < MaxTraceFrames
    /\ \E detections \in TraceDetections :
       \E r \in {trace_annotate(tr, detections)} :
          /\ tr' = r.self
          /\ tr_last' = [detections |-> detections, outcome |-> r.outcome,
                         drawn |-> r.drawn]
          /\ tr_all' = [id \in ProbeIds |->
                          IF id \in IdsOf(detections)
                          THEN Append(tr_all[id], PointOf(detections, id, tr.position))
                          ELSE tr_all[id]]
    /\ tr_calls' = tr_calls + 1
    /\ tr_got' = [id \in ProbeIds |-> Nil]
    /\ UNCHANGED tr_length

\* a direct self.trace.get(tracker_id = id)
TraceGetCall ==
    /\ tr_calls >= 1
    /\ \E id \in ProbeIds :
          /\ tr_got' = [tr_got EXCEPT ![id] = Some(TraceGet(tr.trace, id))]
          /\ tr' = [tr EXCEPT !.trace = TraceGetState(tr.trace, id)]
    /\ UNCHANGED <<tr_calls, tr_last, tr_all, tr_length>>

-----------------------------------------------------------------------------
(* Constructors and stateless functions, called one at a time *)

\* no constructor or stateless function called yet
NoCall == [op |-> "none"]

\* trace_length arguments, the non-positive ones among them
TraceLengths == -1 .. MaxTraceLength

ConstructTraceAnnotator ==
    /\ call = NoCall
    /\ \E position \in Positions, trace_length \in TraceLengths :
       \E r \in {TraceAnnotatorNew(position, trace_length)} :
           call' = [op |-> "TraceAnnotator", position |-> position,
                    trace_length |-> trace_length,
                    outcome |-> r.outcome, self |-> r.self]

\* opacity arguments in percent, within and outside [0, 1]
OpacityArgs == {-50, 0, 20, 100, 150}

\* kernel_size arguments: None, odd and positive, even, zero, negative
KernelSizeArgs == {Nil, Some(-3), Some(0), Some(1), Some(2), Some(3)}

ConstructHeatmapAnnotator ==
    /\ call = NoCall
    /\ \E position \in HeatPositions, opacity \in OpacityArgs,
          radius \in Radii, kernel_size \in KernelSizeArgs :
       \E r \in {HeatmapAnnotatorNew(position, opacity, radius, kernel_size)} :
           call' = [op |-> "HeatmapAnnotator", opacity |-> opacity,
                    kernel_size |-> kernel_size,
                    outcome |-> r.outcome, self |-> r.self]

\* the identity of the array object the caller passes as scene
CallerScene == 1

\* an array object: which object it is and the pixels it holds
Array(id, px) == [id |-> id, px |-> px]

\* MaskAnnotator(color, opacity, color_map = "index")
MaskAnnotatorInit(opacity) == [opacity |-> opacity]

\* Detections.area where masks are carried: the pixels of each mask
MaskArea(detections) ==
    [i \in 1 .. Len(Val(detections.mask)) |->
        Cardinality(Val(detections.mask)[i])]

\* np.flip(np.argsort(area)) over the indices in left: largest area first,
\* among equal areas the later index first
RECURSIVE PaintOrder(_, _)
PaintOrder(area, left) ==
    IF left = {} THEN <<>>
    ELSE LET i == CHOOSE i \in left : \A j \in left :
                      area[j] < area[i] \/ (area[j] = area[i] /\ j <= i)
         IN  <<i>> \o PaintOrder(area, left \ {i})

\* resolve_color(color, resolve_color_idx(...)).as_bgr() under color_map =
\* "index": the palette's colour of the detection's index
MaskPalette == << <<0, 0, 200>>, <<100, 0, 0>> >>
MaskColor(detection_idx) ==
    MaskPalette[((detection_idx - 1) % Len(MaskPalette)) + 1]

\* np.uint8(self.opacity * colored_mask + (1 - self.opacity) * scene) at one
\* pixel
MaskBlend(opacity, color, bgr) ==
    [c \in 1 .. 3 |->
        TruncDiv(opacity * color[c] + (100 - opacity) * bgr[c], 100) % 256]

\* one pass of the loop of MaskAnnotator.annotate: np.where builds a new
\* array, and scene is bound to it
MaskPaint(self, scene, mask, color, id) ==
    Array(id, [p \in Pixels |->
                  IF p \in mask THEN MaskBlend(self.opacity, color, scene.px[p])
                  ELSE scene.px[p]])

\* the passes of the loop over order, from its k-th entry on
RECURSIVE MaskLoop(_, _, _, _, _)
MaskLoop(self, scene, detections, order, k) ==
    IF k > Len(order) THEN scene
    ELSE MaskLoop(self,
                  MaskPaint(self, scene, Val(detections.mask)[order[k]],
                            MaskColor(order[k]), scene.id + 1),
                  detections, order, k + 1)

\* MaskAnnotator.annotate(scene, detections): the array returned; the array
\* passed as scene is written by no statement of it
mask_annotate(self, scene, detections) ==
    IF detections.mask = Nil THEN scene
    ELSE MaskLoop(self, scene, detections,
                  PaintOrder(MaskArea(detections),
                             1 .. Len(Val(detections.mask))), 1)

\* masks over the frame: a column, the left half, the whole frame
MaskShapes ==
    {{p \in Pixels : p[1] = 0}, {p \in Pixels : 2 * p[1] < Width}, Pixels}

\* detections without masks, and with up to MaxDet masks
MaskDetections ==
    {[mask |-> Nil]}
    \cup {[mask |-> Some(m)] : m \in SeqsUpTo(MaskShapes, MaxDet)}

MaskOpacities == {0, 50, 100}

MaskAnnotate ==
    /\ call = NoCall
    /\ \E px \in Scenes, detections \in MaskDetections, opacity \in MaskOpacities :
       \E r \in {mask_annotate(MaskAnnotatorInit(opacity),
                               Array(CallerScene, px), detections)} :
           call' = [op |-> "MaskAnnotator.annotate", detections |-> detections,
                    passed |-> Array(CallerScene, px),
                    \* the caller's array after the call: never written
                    buffer |-> Array(CallerScene, px),
                    returned |-> r]

\* HeatmapAnnotator.annotate on an annotator just built: scene[mask] = ...
\* writes into the array passed, and that array is returned
HeatmapAnnotateBuffer ==
    /\ call = NoCall
    /\ \E px \in Scenes, detections \in HeatDetections,
          position \in HeatPositions, opacity \in Opacities,
          kernel_size \in KernelSizes :
       \E self \in {HeatmapAnnotatorInit(position, opacity, 1, kernel_size)} :
       \E u \in NanCasts(self, detections) :
       \E r \in {annotate(self, px, detections, u)} :
           call' = [op |-> "HeatmapAnnotator.annotate", detections |-> detections,
                    passed |-> Array(CallerScene, px),
                    buffer |-> Array(CallerScene, r.scene),
                    returned |-> Array(CallerScene, r.scene)]

\* the number of axes of a keypoints array: (n, m, 2) or (n, m, 3)
KeypointRank == 3

\* _validate_keypoint_structure(keypoint, n, m): does it let the value pass
validate_keypoint_structure(keypoint, n, m) ==
    keypoint.kind = "ndarray"
        /\ (keypoint.shape = <<n, m, 2>> \/ keypoint.shape = <<n, m, 3>>)

\* the check of the confidence, were it left out
validate_confidence_Skipped(confidence, n, m) == TRUE

\* _validate_confidence(confidence, n, m): does it let the value pass
validate_confidence(confidence, n, m) ==
    confidence = Nil
        \/ (Val(confidence).kind = "ndarray" /\ Val(confidence).shape = <<n, m>>)

\* Keypoints(keypoints, confidence): the dataclass assigns the fields and
\* __post_init__ checks them; len() of a value without axes is a TypeError
KeypointsNew(keypoints, confidence) ==
    LET shape == keypoints.shape
        Failed(error) == [outcome |-> error, self |-> Nil]
    IN  IF Len(shape) = 0 THEN Failed("TypeError")
        ELSE IF shape[1] > 0 /\ Len(shape) = 1 THEN Failed("TypeError")
        ELSE LET n == shape[1]
                 m == IF shape[1] > 0 THEN shape[2] ELSE 0
             IN  IF ~validate_keypoint_structure(keypoints, n, m)
                 THEN Failed("ValueError")
                 ELSE IF ~validate_confidence(confidence, n, m)
                 THEN Failed("ValueError")
                 ELSE [outcome |-> "ok",
                       self |-> Some([keypoints |-> keypoints,
                                      confidence |-> confidence])]

\* shapes of up to rank axes, each axis of length 0 .. MaxDim
Shapes(rank) == SeqsUpTo(0 .. MaxDim, rank)

\* keypoints arguments: arrays and nested lists of every shape of up to one
\* axis more than a keypoints array has
KeypointsArgs ==
    {[kind |-> k, shape |-> sh] :
        k \in {"ndarray", "list"}, sh \in Shapes(KeypointRank + 1)}

\* confidence arguments: None, arrays of up to three axes, and a nested list
ConfidenceArgs ==
    {Nil} \cup {Some([kind |-> "ndarray", shape |-> sh]) :
                    sh \in Shapes(KeypointRank)}
          \cup {Some([kind |-> "list", shape |-> <<1, 1>>])}

ConstructKeypoints ==
    /\ call = NoCall
    /\ \E keypoints \in KeypointsArgs, confidence \in ConfidenceArgs :
       \E r \in {KeypointsNew(keypoints, confidence)} :
           call' = [op |-> "Keypoints", keypoints |-> keypoints,
                    confidence |-> confidence,
                    outcome |-> r.outcome, self |-> r.self]

\* boxes in half-pixel units with x2 >= x1 and y2 >= y1: whole and fractional
\* coordinates, odd and even sums, and the box (0, 0, 10, 20)
AnchorBoxes ==
    {<<x1, y1, x1 + w, y1 + h>> :
        x1 \in {-3, 0, 1}, y1 \in {0, 1, 2}, w \in {0, 1, 2, 6}, h \in {0, 3}}
    \cup {<<0, 0, 20, 40>>}

CallGetXY ==
    /\ call = NoCall
    /\ \E xyxy \in AnchorBoxes, position \in Positions \cup {None} :
           call' = [op |-> "get_xy", xyxy |-> xyxy, position |-> position,
                    result |-> get_xy(xyxy, position)]

-----------------------------------------------------------------------------
(* Specifications *)

\* the trace annotator before its first use, for the runs of the heatmap
TraceIdle ==
    /\ tr = TraceAnnotatorInit("CENTER", 1)
    /\ tr_length = 1
    /\ tr_calls = 0
    /\ tr_last = [detections |-> NoDetections, outcome |-> "ok", drawn |-> <<>>]
    /\ tr_got = [id \in ProbeIds |-> Nil]
    /\ tr_all = [id \in ProbeIds |-> <<>>]

\* the heatmap annotator before its first use, for the runs of the trace
HeatIdle ==
    /\ hm = HeatmapAnnotatorInit("BOTTOM_CENTER", 20, 1, Nil)
    /\ hm_calls = 0
    /\ hm_in = [scene |-> UniformScene(<<0, 0, 0>>), detections |-> NoDetections]
    /\ hm_out = UniformScene(<<0, 0, 0>>)
    /\ hm_obs = [mask |-> Zeros, nan |-> FALSE, temp8 |-> Zeros, temp |-> Zeros]
    /\ hm_ghost = [cover |-> Zeros, frames |-> Zeros, same |-> TRUE,
                   single |-> Zeros, ever |-> 0]

\* no constructor or stateless function called
ApiIdle == call = NoCall

\* one HeatmapAnnotator, fed frame after frame
HeatInit == HeatVarsInit /\ TraceIdle /\ ApiIdle
HeatNext == HeatmapAnnotate
HeatSpec == HeatInit /\ [][HeatNext]_vars

\* constructors and stateless functions, each call on its own
ApiInit == ApiIdle /\ HeatIdle /\ TraceIdle
ApiNext ==
    \/ ConstructTraceAnnotator /\ UNCHANGED <<heat_vars, trace_vars>>
    \/ ConstructHeatmapAnnotator /\ UNCHANGED <<heat_vars, trace_vars>>
    \/ CallGetXY /\ UNCHANGED <<heat_vars, trace_vars>>
    \/ MaskAnnotate /\ UNCHANGED <<heat_vars, trace_vars>>
    \/ HeatmapAnnotateBuffer /\ UNCHANGED <<heat_vars, trace_vars>>
    \/ ConstructKeypoints /\ UNCHANGED <<heat_vars, trace_vars>>
ApiSpec == ApiInit /\ [][ApiNext]_vars

\* one TraceAnnotator, fed frame after frame and queried in between
TraceSpecInit == TraceInit /\ HeatIdle /\ ApiIdle
TraceNext ==
    \/ TraceAnnotate /\ UNCHANGED <<heat_vars, api_vars>>
    \/ TraceGetCall /\ UNCHANGED <<heat_vars, api_vars>>
TraceSpec == TraceSpecInit /\ [][TraceNext]_vars

\* a HeatmapAnnotator and a TraceAnnotator of which one is fed frame after
\* frame while the other is left as built: the two share no state
AnnotatorInit == TraceSpecInit
AnnotatorNext ==
    \/ TraceIdle /\ HeatNext
    \/ HeatIdle /\ TraceNext
AnnotatorSpec == AnnotatorInit /\ [][AnnotatorNext]_vars

-----------------------------------------------------------------------------
(* Properties of the heatmap accumulator *)

\* the accumulator, with the not yet created one read as all zero
Heat == IF hm.heatmask = Nil THEN Zeros ELSE Val(hm.heatmask)

HeatMax == SetMax({Heat[p] : p \in Pixels})

\* C2 as stated: the accumulator at every pixel is the number of (detection,
\* frame) pairs whose disk covers the pixel, overlapping disks of one frame
\* each adding 1.
C2_AccumulatorCountsCoverings ==
    \A p \in Pixels : Heat[p] = hm_ghost.cover[p]

\* C2 as amended: the accumulator at every pixel is the number of frames in
\* which at least one detection's disk covers the pixel (overlapping disks of
\* one frame add 1 together), whether or not the detections carry tracker
\* identities; it never exceeds the number of coverings.
C2_AccumulatorCountsFrames ==
    \A p \in Pixels : /\ Heat[p] = hm_ghost.frames[p]
                      /\ Heat[p] <= hm_ghost.cover[p]

\* two disks of one frame, without tracker identities, overlapped on a pixel
C2_Witness ==
    /\ hm_calls >= 2
    /\ hm_in.detections.tracker_id = Nil
    /\ Len(hm_in.detections.xyxy) >= 2
    /\ \E p \in Pixels : /\ Coverings(hm_in.detections, hm.position, hm.radius, p) = 2
                         /\ Heat[p] >= 2
                         /\ hm_ghost.cover[p] > hm_ghost.frames[p]

\* C3: after K >= 1 calls with the same detection set the accumulator is K
\* times the accumulator after the first call, at every pixel (so 0 wherever
\* no disk lies).
C3_Additivity ==
    (hm_calls >= 1 /\ hm_ghost.same) =>
        \A p \in Pixels : Heat[p] = hm_calls * hm_ghost.single[p]

\* the same non-empty detection set was accumulated three times
C3_Witness ==
    /\ hm_calls = 3
    /\ hm_ghost.same
    /\ hm_in.detections.xyxy # <<>>
    /\ \E p \in Pixels : Heat[p] = 3
    /\ \E p \in Pixels : Heat[p] = 0

\* C4: every annotate call leaves the accumulator equal to the accumulator
\* before the call plus the frame's disk mask, hence nowhere smaller; the
\* normalisation, blur, colouring and compositing of the call change nothing
\* of it.
C4_AccumulatorOnlyGrows ==
    [][hm_calls' = hm_calls + 1 =>
         \A p \in Pixels :
            /\ Val(hm'.heatmask)[p] = Heat[p] + hm_obs'.mask[p]
            /\ Val(hm'.heatmask)[p] >= Heat[p]]_vars

\* a call that drew an overlay onto the scene on top of an earlier history
\* and whose frame left some accumulated pixel as it was
C4_Witness ==
    /\ hm_calls >= 2
    /\ hm_out # hm_in.scene
    /\ \E p \in Pixels : Heat[p] > 0 /\ hm_obs.mask[p] = 0
    /\ \E p \in Pixels : Heat[p] >= 2 /\ hm_obs.mask[p] = 1

\* C5: the normalisation never divides by a zero maximum (the display value
\* is never the undefined 0 / 0).
C5_NoDivisionByZero == ~hm_obs.nan

AnchorPixel(i) ==
    LET q == get_xy(hm_in.detections.xyxy[i], hm.position)
    IN  <<TruncDiv(q[1], 2), TruncDiv(q[2], 2)>>

\* C16: while the accumulator's maximum is positive, the display value of a
\* pixel before the blur is 100 - (accumulated / max) * 90 truncated to an
\* integer: within 10 .. 100, 10 where the accumulator is at its maximum and
\* 100 where it is 0; one detection accumulated at the same anchor in two
\* frames gives 10 at the anchor's pixel.
C16_DisplayValue ==
    (hm_calls >= 1 /\ HeatMax > 0) =>
        /\ \A p \in Pixels :
            /\ hm_obs.temp8[p] = (100 * HeatMax - 90 * Heat[p]) \div HeatMax
            /\ hm_obs.temp8[p] \in 10 .. 100
            /\ Heat[p] = HeatMax => hm_obs.temp8[p] = 10
            /\ Heat[p] = 0 => hm_obs.temp8[p] = 100
        /\ (hm_calls = 2 /\ hm_ghost.same /\ Len(hm_in.detections.xyxy) = 1
                /\ AnchorPixel(1) \in Pixels)
              => hm_obs.temp8[AnchorPixel(1)] = 10

\* four frames accumulated: a pixel at the maximum, a pixel covered once
\* whose 77.5 is cut to 77, and a pixel never covered
C16_Witness ==
    /\ hm_calls = 4
    /\ HeatMax = 4
    /\ \E p \in Pixels : Heat[p] = 4 /\ hm_obs.temp8[p] = 10
    /\ \E p \in Pixels : Heat[p] = 1 /\ hm_obs.temp8[p] = 77
    /\ \E p \in Pixels : Heat[p] = 0 /\ hm_obs.temp8[p] = 100

\* the pixels whose display value the blur mixes into the pixel p
BlurReach(p) ==
    IF hm.kernel_size = Nil THEN {p}
    ELSE LET k == Val(hm.kernel_size) \div 2
         IN  {q \in Pixels : /\ q[1] - p[1] \in -k .. k
                             /\ q[2] - p[2] \in -k .. k}

\* C7: once something was accumulated, a pixel whose accumulator is 0 and
\* that no touched pixel reaches through the blur is returned as the base
\* frame has it.
C7_UntouchedPixelsUnchanged ==
    (hm_calls >= 1 /\ HeatMax > 0) =>
        \A p \in Pixels :
            (\A q \in BlurReach(p) : Heat[q] = 0) => hm_out[p] = hm_in.scene[p]

-----------------------------------------------------------------------------
(* Properties of the trace buffer *)

\* the last k elements of a sequence
LastOf(seq, k) == SubSeq(seq, Len(seq) - k + 1, Len(seq))

Min(a, b) == IF a < b THEN a ELSE b

ExamplePoints == <<<<1, 1>>, <<2, 2>>, <<3, 3>>, <<4, 4>>>>

\* C1: for every identity, get returns at most trace_length points: the most
\* recent min(trace_length, n) of the n points ever put for it, oldest first;
\* with trace_length 3 and (1,1),(2,2),(3,3),(4,4) put for identity 7, get(7)
\* is (2,2),(3,3),(4,4).
C1_MostRecentPoints ==
    /\ \A id \in ProbeIds :
          LET xy == TraceGet(tr.trace, id)
          IN  /\ Len(xy) <= tr_length
              /\ xy = LastOf(tr_all[id], Min(tr_length, Len(tr_all[id])))
    /\ (tr_length = 3 /\ tr_all[7] = ExamplePoints)
          => TraceGet(tr.trace, 7) = <<<<2, 2>>, <<3, 3>>, <<4, 4>>>>

\* the example of C1: four points put for identity 7 into a buffer of 3
C1_Witness ==
    /\ tr_length = 3
    /\ tr_all[7] = ExamplePoints
    /\ Len(TraceGet(tr.trace, 7)) = 3

\* C8: an annotate call whose detections carry no tracker identity completes
\* without an error, leaves the buffer as it was and draws nothing.
C8_UntrackedSkippedWithoutError ==
    [][(tr_calls' = tr_calls + 1 /\ tr_last'.detections.tracker_id = Nil) =>
          /\ tr_last'.outcome = "ok"
          /\ tr'.trace = tr.trace
          /\ tr_last'.drawn = <<>>]_vars

\* C9: an annotate call leaves the history of every identity absent from its
\* frame as it was, and no identity loses its stored history.
C9_AbsentIdentityKeepsHistory ==
    [][tr_calls' = tr_calls + 1 =>
          /\ \A id \in ProbeIds \ IdsOf(tr_last'.detections) :
                TraceGet(tr'.trace, id) = TraceGet(tr.trace, id)
          /\ DOMAIN tr.trace.xy \subseteq DOMAIN tr'.trace.xy]_vars

\* identity 7 kept a history of two points through two frames without it
C9_Witness ==
    /\ tr_calls = 4
    /\ Len(tr_all[7]) = 2
    /\ Len(TraceGet(tr.trace, 7)) = 2
    /\ 7 \notin IdsOf(tr_last.detections)
    /\ Len(tr_all[8]) >= 2

\* C10: a get leaves the buffer as it was, returns no point for an identity
\* never put, and returns the one point of an identity that has exactly one.
C10_GetReadsOnly ==
    [][\A id \in ProbeIds :
          (tr_got'[id] # Nil /\ tr_got'[id] # tr_got[id]) =>
              /\ tr' = tr
              /\ tr_all[id] = <<>> => Val(tr_got'[id]) = <<>>
              /\ Len(tr_all[id]) = 1 => Val(tr_got'[id]) = tr_all[id]]_vars

\* gets of the never seen identity 9, of identity 8 with its one point and of
\* identity 7 with several
C10_Witness ==
    /\ tr_got[9] = Some(<<>>)
    /\ tr_all[8] = <<<<1, 1>>>>
    /\ tr_got[8] = Some(<<<<1, 1>>>>)
    /\ tr_got[7] # Nil
    /\ Len(Val(tr_got[7])) >= 2

-----------------------------------------------------------------------------
(* Properties of the constructors and of get_xy *)

\* C11: a TraceAnnotator built with trace_length <= 0 is refused at
\* construction: the constructor ends in a configuration error and leaves no
\* instance whose first annotate could report it instead.
C11_NonPositiveLengthRefused ==
    (call.op = "TraceAnnotator" /\ call.trace_length <= 0) =>
        (call.outcome = "ConfigError" /\ call.self = Nil)

\* a construction with trace_length 0 was refused
C11_Witness ==
    /\ call.op = "TraceAnnotator"
    /\ call.trace_length = 0
    /\ call.outcome = "ConfigError"

\* an opacity within [0, 1], in percent
ValidOpacity(opacity) == opacity >= 0 /\ opacity <= 100

\* a kernel size that is absent or a positive odd integer
ValidKernelSize(kernel_size) ==
    kernel_size = Nil \/ (Val(kernel_size) > 0 /\ Val(kernel_size) % 2 = 1)

\* C12: a HeatmapAnnotator built with an opacity outside [0, 1], or with a
\* kernel_size that is given and is not a positive odd integer, is refused at
\* construction and the value is not stored.
C12_BadOpacityOrKernelRefused ==
    (call.op = "HeatmapAnnotator"
        /\ ~(ValidOpacity(call.opacity) /\ ValidKernelSize(call.kernel_size))) =>
        (call.outcome = "ConfigError" /\ call.self = Nil)

\* the point C13 names for a box and one of the nine positions, in
\* half-pixel units: every coordinate truncated to a whole pixel
NamedPoint(xyxy, position) ==
    LET x == IF position \in {"TOP_LEFT", "CENTER_LEFT", "BOTTOM_LEFT"}
             THEN 2 * TruncDiv(xyxy[1], 2)
             ELSE IF position \in {"TOP_RIGHT", "CENTER_RIGHT", "BOTTOM_RIGHT"}
             THEN 2 * TruncDiv(xyxy[3], 2)
             ELSE 2 * TruncDiv(xyxy[1] + xyxy[3], 4)
        y == IF position \in {"TOP_LEFT", "TOP_CENTER", "TOP_RIGHT"}
             THEN 2 * TruncDiv(xyxy[2], 2)
             ELSE IF position \in {"BOTTOM_LEFT", "BOTTOM_CENTER", "BOTTOM_RIGHT"}
             THEN 2 * TruncDiv(xyxy[4], 2)
             ELSE 2 * TruncDiv(xyxy[2] + xyxy[4], 4)
    IN  <<x, y>>

\* C13: for every box and each of the nine positions get_xy returns the
\* point the position names, every coordinate truncated to a whole pixel,
\* those of TOP_LEFT included; the box (0, 0, 10, 20) gives (5, 20) for
\* BOTTOM_CENTER and (0, 0) for TOP_LEFT.
C13_AnchorTruncated ==
    (call.op = "get_xy" /\ call.position \in Positions) =>
        /\ call.result = NamedPoint(call.xyxy, call.position)
        /\ (call.xyxy = <<0, 0, 20, 40>> /\ call.position = "BOTTOM_CENTER")
              => call.result = <<10, 40>>
        /\ (call.xyxy = <<0, 0, 20, 40>> /\ call.position = "TOP_LEFT")
              => call.result = <<0, 0>>

\* the calls of annotate made on their own
AnnotateOps == {"MaskAnnotator.annotate", "HeatmapAnnotator.annotate"}

\* C14: annotate writes its result into the array it was passed and returns
\* that same array, for HeatmapAnnotator and for MaskAnnotator alike,
\* detections with masks included.
C14_AnnotatesInPlace ==
    (call.op \in AnnotateOps) =>
        /\ call.returned.id = call.passed.id
        /\ call.buffer = call.returned

\* the arguments C15 admits: keypoints an array of shape (N, M, 2) or
\* (N, M, 3) with M = 0 when N = 0, confidence absent or an array of shape
\* (N, M)
AdmittedKeypoints(keypoints, confidence) ==
    /\ keypoints.kind = "ndarray"
    /\ Len(keypoints.shape) = 3
    /\ keypoints.shape[3] \in {2, 3}
    /\ keypoints.shape[1] = 0 => keypoints.shape[2] = 0
    /\ \/ confidence = Nil
       \/ /\ Val(confidence).kind = "ndarray"
          /\ Val(confidence).shape = <<keypoints.shape[1], keypoints.shape[2]>>

\* C15: the construction of a Keypoints succeeds exactly for keypoints of
\* shape (N, M, 2) or (N, M, 3) with a confidence that is absent or of shape
\* (N, M), M being 0 when N is 0; for every other argument it ends in an
\* error and leaves no instance.
C15_KeypointsShapesChecked ==
    (call.op = "Keypoints") =>
        /\ (call.outcome = "ok") <=> AdmittedKeypoints(call.keypoints, call.confidence)
        /\ (call.outcome = "ok") => call.self # Nil
        /\ (call.outcome # "ok") => call.self = Nil

\* a construction of well-shaped keypoints refused for its confidence alone
C15_Witness ==
    /\ call.op = "Keypoints"
    /\ call.outcome = "ValueError"
    /\ call.keypoints.kind = "ndarray"
    /\ call.keypoints.shape = <<2, 3, 2>>
    /\ call.confidence = Some([kind |-> "ndarray", shape |-> <<2, 2>>])

\* the histories of the identities of a frame, in the frame's order
HistoriesOf(trace, detections) ==
    [i \in 1 .. Len(detections.xyxy) |->
        TraceGet(trace, Val(detections.tracker_id)[i])]

Drawable(xy) == Len(xy) > 1

\* the display value of the pixel p for the frames counted in frames
DisplayOf(frames, p) ==
    LET max == SetMax({frames[q] : q \in Pixels})
    IN  (100 * max - 90 * frames[p]) \div max

\* C17: an annotate call updates the retained state before it composites.
\* TraceAnnotator.annotate puts the frame's points before it reads the
\* histories: what it draws are the histories after the put, each ending
\* with the frame's anchor point of its identity. HeatmapAnnotator.annotate
\* adds the frame's disks before it normalises: the display values of frame
\* k are those of the frames 1 .. k, frame k included.
C17_UpdateBeforeCompositing ==
    [][/\ (tr_calls' = tr_calls + 1 /\ tr_last'.outcome = "ok") =>
            LET detections == tr_last'.detections
                after == HistoriesOf(tr'.trace, detections)
            IN  /\ tr_last'.drawn = SelectSeq(after, Drawable)
                /\ \A i \in 1 .. Len(detections.xyxy) :
                      /\ after[i] # <<>>
                      /\ after[i][Len(after[i])] =
                            TraceAnchor(detections.xyxy[i], tr.position)
       /\ (hm_calls' = hm_calls + 1
              /\ \E p \in Pixels : hm_ghost'.frames[p] > 0) =>
            \A p \in Pixels :
                hm_obs'.temp8[p] = DisplayOf(hm_ghost'.frames, p)]_vars

\* identity 7 was drawn with a history that ends in the point its box has
\* in the frame just annotated, a point it did not have before
C17_Witness ==
    /\ tr_calls >= 2
    /\ tr_last.outcome = "ok"
    /\ 7 \in IdsOf(tr_last.detections)
    /\ Len(tr_last.drawn) >= 1
    /\ LET xy == tr_last.drawn[1]
       IN  /\ xy[Len(xy)] = PointOf(tr_last.detections, 7, tr.position)
           /\ xy[Len(xy)] # xy[Len(xy) - 1]

\* the detections of a frame whose identity has at least two stored points
TwoPointDetections(trace, detections) ==
    IF detections.tracker_id = Nil THEN {}
    ELSE {i \in 1 .. Len(detections.xyxy) :
            Len(TraceGet(trace, Val(detections.tracker_id)[i])) >= 2}

\* C18: an annotate call draws one poly-line for each detection whose
\* identity has at least two stored points and none for any other: every
\* poly-line has two points or more, and where every identity of the frame
\* has a single point or none nothing is drawn.
C18_PolylineNeedsTwoPoints ==
    [][tr_calls' = tr_calls + 1 =>
          LET drawable == TwoPointDetections(tr'.trace, tr_last'.detections)
          IN  /\ \A k \in 1 .. Len(tr_last'.drawn) : Len(tr_last'.drawn[k]) >= 2
              /\ Len(tr_last'.drawn) = Cardinality(drawable)
              /\ drawable = {} => tr_last'.drawn = <<>>]_vars

\* a frame with identity 7 on its second point or later and identity 8 on
\* its first: one poly-line drawn for two detections
C18_Witness ==
    /\ tr_calls >= 2
    /\ tr_last.outcome = "ok"
    /\ IdsOf(tr_last.detections) = {7, 8}
    /\ Len(tr_all[7]) >= 2
    /\ Len(tr_all[8]) = 1
    /\ Len(TraceGet(tr.trace, 7)) >= 2
    /\ Len(tr_last.drawn) = 1

====
